---- MODULE Spec2Model ----
(***************************************************************************)
(* Model of simple-versioning (src/main.py): calculate_new_version reads   *)
(* the tags of a git repository, parses them as versions, selects the next *)
(* version, renders its tag name and, unless told not to, creates and      *)
(* pushes the tag.                                                         *)
(*                                                                         *)
(* Strings are sequences of one-character strings, so that startswith,     *)
(* endswith, replace, str() and semver's parse are computed character by   *)
(* character as Python computes them.                                      *)
(***************************************************************************)
EXTENDS Integers, Sequences, FiniteSets, TLC

(***************************************************************************)
(* Characters                                                              *)
(***************************************************************************)
DigitChars == <<"0", "1", "2", "3", "4", "5", "6", "7", "8", "9">>

IsDigit(c) == \E i \in 1..Len(DigitChars) : DigitChars[i] = c

DigitVal(c) == (CHOOSE i \in 1..Len(DigitChars) : DigitChars[i] = c) - 1

\* The letters that occur in the tag names of the model, in ASCII order.
LetterChars == <<"A", "H", "N", "O", "P", "S", "T", "c", "r", "v", "x">>

IsLetter(c) == \E i \in 1..Len(LetterChars) : LetterChars[i] = c

\* [0-9a-zA-Z-], the characters of a prerelease or build identifier.
IsIdentChar(c) == IsDigit(c) \/ IsLetter(c) \/ c = "-"

\* The characters of the model in ASCII order: '-' < digits < upper < lower.
AsciiOrder == <<"+", "-", ".">> \o DigitChars \o LetterChars

Ord(c) == CHOOSE i \in 1..Len(AsciiOrder) : AsciiOrder[i] = c

(***************************************************************************)
(* Python's str operations                                                 *)
(***************************************************************************)
StartsWith(s, p) == Len(p) <= Len(s) /\ SubSeq(s, 1, Len(p)) = p

EndsWith(s, p) == Len(p) <= Len(s) /\ SubSeq(s, Len(s) - Len(p) + 1, Len(s)) = p

\* s.replace(old, ''): every non-overlapping occurrence of old, found from
\* the left, is removed; replacing the empty string by itself changes nothing.
RECURSIVE Replace(_, _)
Replace(s, old) ==
  IF old = <<>> \/ Len(s) < Len(old) THEN s
  ELSE IF SubSeq(s, 1, Len(old)) = old
       THEN Replace(SubSeq(s, Len(old) + 1, Len(s)), old)
       ELSE <<Head(s)>> \o Replace(Tail(s), old)

\* str(n) for a non-negative int.
RECURSIVE IntToStr(_)
IntToStr(n) ==
  IF n < 10 THEN <<DigitChars[n + 1]>>
  ELSE IntToStr(n \div 10) \o <<DigitChars[(n % 10) + 1]>>

\* int(s) for a string of digits.
RECURSIVE StrToInt(_)
StrToInt(s) ==
  IF s = <<>> THEN 0
  ELSE 10 * StrToInt(SubSeq(s, 1, Len(s) - 1)) + DigitVal(s[Len(s)])

\* Python's ordering of two strings (by code point, a proper prefix first).
RECURSIVE StrLess(_, _)
StrLess(a, b) ==
  IF b = <<>> THEN FALSE
  ELSE IF a = <<>> THEN TRUE
  ELSE IF a[1] # b[1] THEN Ord(a[1]) < Ord(b[1])
  ELSE StrLess(Tail(a), Tail(b))

\* Index of the first occurrence of character c in s, 0 when there is none.
IndexOf(s, c) ==
  IF \E i \in 1..Len(s) : s[i] = c
  THEN CHOOSE i \in 1..Len(s) : s[i] = c /\ \A j \in 1..(i - 1) : s[j] # c
  ELSE 0

\* s.split('.')
RECURSIVE SplitDots(_)
SplitDots(s) ==
  LET i == IndexOf(s, ".")
  IN IF i = 0 THEN <<s>>
     ELSE <<SubSeq(s, 1, i - 1)>> \o SplitDots(SubSeq(s, i + 1, Len(s)))

(***************************************************************************)
(* semver.Version                                                          *)
(***************************************************************************)
AllDigits(s) == s # <<>> /\ \A i \in 1..Len(s) : IsDigit(s[i])

\* 0|[1-9]\d*
IsNumeric(s) == AllDigits(s) /\ (Len(s) = 1 \/ s[1] # "0")

\* One prerelease identifier: 0|[1-9]\d*|\d*[a-zA-Z-][0-9a-zA-Z-]*
IsPrereleaseId(s) ==
  /\ s # <<>>
  /\ \A i \in 1..Len(s) : IsIdentChar(s[i])
  /\ AllDigits(s) => IsNumeric(s)

\* One build identifier: [0-9a-zA-Z-]+
IsBuildId(s) == s # <<>> /\ \A i \in 1..Len(s) : IsIdentChar(s[i])

NoVersion == [major |-> -1, minor |-> -1, patch |-> -1,
              prerelease |-> <<>>, build |-> <<>>]

\* semver.Version(major, minor, patch); an absent prerelease or build is <<>>.
Version(major, minor, patch) ==
  [major |-> major, minor |-> minor, patch |-> patch,
   prerelease |-> <<>>, build |-> <<>>]

\* semver.Version.parse(s): major.minor.patch[-prerelease][+build], NoVersion
\* where parse raises.
Parse(s) ==
  LET plus  == IndexOf(s, "+")
      left  == IF plus = 0 THEN s ELSE SubSeq(s, 1, plus - 1)
      build == IF plus = 0 THEN <<>> ELSE SubSeq(s, plus + 1, Len(s))
      dash  == IndexOf(left, "-")
      core  == IF dash = 0 THEN left ELSE SubSeq(left, 1, dash - 1)
      pre   == IF dash = 0 THEN <<>> ELSE SubSeq(left, dash + 1, Len(left))
      nums  == SplitDots(core)
      preIds == SplitDots(pre)
      buildIds == SplitDots(build)
  IN IF /\ Len(nums) = 3
        /\ \A i \in 1..3 : IsNumeric(nums[i])
        /\ dash # 0 => \A i \in 1..Len(preIds) : IsPrereleaseId(preIds[i])
        /\ plus # 0 => \A i \in 1..Len(buildIds) : IsBuildId(buildIds[i])
     THEN [major |-> StrToInt(nums[1]), minor |-> StrToInt(nums[2]),
           patch |-> StrToInt(nums[3]), prerelease |-> pre, build |-> build]
     ELSE NoVersion

\* str(version)
VersionToStr(v) ==
  IntToStr(v.major) \o <<".">> \o IntToStr(v.minor) \o <<".">> \o IntToStr(v.patch)
    \o (IF v.prerelease = <<>> THEN <<>> ELSE <<"-">> \o v.prerelease)
    \o (IF v.build = <<>> THEN <<>> ELSE <<"+">> \o v.build)

\* Comparison of two prerelease identifiers: -1, 0 or 1.  Numeric identifiers
\* compare as numbers and sort before the others, which compare as strings.
CmpPrereleaseTag(a, b) ==
  IF AllDigits(a) /\ AllDigits(b)
  THEN (IF StrToInt(a) < StrToInt(b) THEN -1
        ELSE IF StrToInt(a) > StrToInt(b) THEN 1 ELSE 0)
  ELSE IF AllDigits(a) THEN -1
  ELSE IF AllDigits(b) THEN 1
  ELSE IF StrLess(a, b) THEN -1
  ELSE IF StrLess(b, a) THEN 1 ELSE 0

Min(a, b) == IF a < b THEN a ELSE b

\* semver's comparison of two prerelease strings (either may be <<>>): the
\* first differing identifier decides, then the length of the strings.
NatCmp(a, b) ==
  LET ap == SplitDots(a)
      bp == SplitDots(b)
      n  == Min(Len(ap), Len(bp))
      diff == {i \in 1..n : CmpPrereleaseTag(ap[i], bp[i]) # 0}
  IN IF diff # {}
     THEN LET i == CHOOSE i \in diff : \A j \in diff : i <= j
          IN CmpPrereleaseTag(ap[i], bp[i])
     ELSE IF Len(a) < Len(b) THEN -1 ELSE IF Len(a) > Len(b) THEN 1 ELSE 0

\* Version.compare: (major, minor, patch) lexicographically, then the
\* prerelease, a version without one being the greater; build is ignored.
Compare(v, w) ==
  IF v.major # w.major THEN (IF v.major < w.major THEN -1 ELSE 1)
  ELSE IF v.minor # w.minor THEN (IF v.minor < w.minor THEN -1 ELSE 1)
  ELSE IF v.patch # w.patch THEN (IF v.patch < w.patch THEN -1 ELSE 1)
  ELSE LET rc == NatCmp(v.prerelease, w.prerelease)
       IN IF rc = 0 THEN 0
          ELSE IF v.prerelease = <<>> THEN 1
          ELSE IF w.prerelease = <<>> THEN -1
          ELSE rc

\* A max that compares the patch alone.
MaxVersionByPatch(vs) ==
  CHOOSE v \in vs : \A w \in vs : v.patch >= w.patch

\* max(versions): an element no other element is greater than.
MaxVersion(vs) ==
  CHOOSE v \in vs : \A w \in vs : Compare(v, w) >= 0

\* bump_minor in place of bump_patch.
BumpMinor(v) == Version(v.major, v.minor + 1, 0)

\* Version.bump_patch(): the patch raised by one, prerelease and build dropped.
BumpPatch(v) == Version(v.major, v.minor, v.patch + 1)

(***************************************************************************)
(* The functions of src/main.py                                            *)
(***************************************************************************)
\* An optional int (click's default=None, type=int): <<>> is None, <<n>> is n.
None == <<>>

IsNone(x) == x = None

\* int(x) of an option that is set.
IntOf(x) == x[1]

\* A filter-minor that is never taken over.
TruthyNever(x) == FALSE

\* Truthiness of an optional int: None and 0 are false.
Truthy(x) == ~IsNone(x) /\ IntOf(x) # 0

\* ref_name.replace(version_prefix, '').replace(version_suffix, '')
ExtractVersionString(ref_name, prefix, suffix) ==
  Replace(Replace(ref_name, prefix), suffix)

\* The versions find_previous_versions collects from the tag references.
PreviousVersions(refs, prefix, suffix) ==
  {Parse(ExtractVersionString(ref_name, prefix, suffix)) :
     ref_name \in {r \in refs : StartsWith(r, prefix) /\ EndsWith(r, suffix)}}
    \ {NoVersion}

filter_versions(vs, filter_major, filter_minor) ==
  IF IsNone(filter_major) THEN vs
  ELSE {version \in vs :
          /\ version.major = IntOf(filter_major)
          /\ (IsNone(filter_minor) \/ version.minor = IntOf(filter_minor))}

\* The selection with the test of the filtered set before that of the versions.
IncreasedVersionFilterFirst(vs, filtered, filter_major_version, filter_minor_version) ==
  IF Cardinality(filtered) = 0 /\ ~IsNone(filter_major_version)
  THEN Version(IntOf(filter_major_version),
               IF Truthy(filter_minor_version) THEN IntOf(filter_minor_version) ELSE 0,
               0)
  ELSE IF Cardinality(vs) = 0 THEN Version(1, 0, 0)
  ELSE BumpPatch(MaxVersion(filtered))

\* Lines 84-100 of calculate_new_version.
IncreasedVersion(vs, filtered, filter_major_version, filter_minor_version) ==
  IF Cardinality(vs) = 0 THEN Version(1, 0, 0)
  ELSE IF Cardinality(filtered) = 0
  THEN Version(IntOf(filter_major_version),
               IF Truthy(filter_minor_version) THEN IntOf(filter_minor_version) ELSE 0,
               0)
  ELSE BumpPatch(MaxVersion(filtered))

SNAPSHOT == <<"S", "N", "A", "P", "S", "H", "O", "T">>

\* patch_version.strip(): leading and trailing blanks removed.
RECURSIVE Strip(_)
Strip(s) ==
  IF s # <<>> /\ Head(s) = " " THEN Strip(Tail(s))
  ELSE IF s # <<>> /\ s[Len(s)] = " " THEN Strip(SubSeq(s, 1, Len(s) - 1))
  ELSE s

\* A rendering that never takes the snapshot branch.
generate_version_name_no_override(increased, prefix, suffix, override_patch_version, patch_version) ==
  prefix \o VersionToStr(increased) \o suffix

\* A snapshot rendering that keeps the patch.
generate_version_name_keeps_patch(increased, prefix, suffix, override_patch_version, patch_version) ==
  IF override_patch_version /\ Strip(patch_version) # <<>>
  THEN prefix \o VersionToStr(increased) \o <<"-">> \o SNAPSHOT \o suffix
  ELSE prefix \o VersionToStr(increased) \o suffix

generate_version_name(increased, prefix, suffix, override_patch_version, patch_version) ==
  IF override_patch_version /\ Strip(patch_version) # <<>>
  THEN prefix \o IntToStr(increased.major) \o <<".">>
         \o IntToStr(increased.minor) \o <<"-">> \o SNAPSHOT \o suffix
  ELSE prefix \o VersionToStr(increased) \o suffix

\* A collision check that finds no name taken.
TagNameNeverTaken(tag_name, known_tags) == FALSE

\* The test of line 108.
TagNameTaken(tag_name, known_tags) == tag_name \in known_tags

(***************************************************************************)
(* Bounds and input pools                                                  *)
(***************************************************************************)
\* Invocations of calculate_new_version in one behaviour.
MaxRuns == 3

\* Tags in the repository before the first invocation.
MaxInitTags == 2

\* The processes that may run calculate_new_version on the repository.
Procs == {"a", "b"}

\* The repository's remotes.
Remotes == {"origin"}

PrefixPool == {<<>>, <<"v">>, <<"1">>}

SuffixPool == {<<>>, <<"-", "r", "c">>, <<".", "0">>}

FilterMajorPool == {None, <<0>>, <<1>>, <<2>>}

FilterMinorPool == {None, <<0>>, <<3>>}

\* Versions whose tags, under the configured prefix and suffix, may exist.
PoolVersions ==
  {Version(1, 0, 0), Version(1, 0, 9), Version(1, 1, 0),
   Version(2, 3, 1), Version(0, 0, 9), Version(2, 0, 0)}

\* Tags that follow no configuration: not a version, a prerelease, a snapshot
\* tag, a number with a leading zero, a bare version.
OddTags ==
  {<<"x">>,
   <<"v", "1", ".", "0", ".", "0", "-", "r", "c">>,
   <<"v", "1", ".", "0", "-">> \o SNAPSHOT,
   <<"v", "0", "1", ".", "0", ".", "0">>,
   <<"1", ".", "0", ".", "0">>}

TagPool(prefix, suffix) ==
  {prefix \o VersionToStr(v) \o suffix : v \in PoolVersions} \cup OddTags

\* The pools of the specifications that run several invocations.
\* Pairs of prefix and suffix: v and nothing, 1 and nothing, v and .0,
\* 0-SNAPSHOT and 2.30-SNAPSHOT.
SmallAffixPool ==
  {<<<<"v">>, <<>>>>,
   <<<<"1">>, <<>>>>,
   <<<<"v">>, <<".", "0">>>>,
   <<<<"0", "-">> \o SNAPSHOT, <<"2", ".", "3", "0", "-">> \o SNAPSHOT>>}

SmallFilterMajorPool == {None, <<2>>}

SmallFilterMinorPool == {None, <<3>>}

SmallTagPool(prefix, suffix) ==
  {prefix \o VersionToStr(Version(1, 0, 0)) \o suffix,
   prefix \o VersionToStr(Version(2, 3, 9)) \o suffix,
   <<"v", "1", ".", "0", "-">> \o SNAPSHOT}

SmallRemoteTagPool(prefix, suffix) ==
  {prefix \o VersionToStr(Version(1, 0, 1)) \o suffix}

(***************************************************************************)
(* State                                                                   *)
(***************************************************************************)
VARIABLES
  tags,                     \* the tag names of the local repository
  remote_tags,              \* the tag names of each remote
  version_prefix, version_suffix,
  filter_major_version, filter_minor_version,
  pull_before,
  active,                   \* the processes that invoke the program
  budget,                   \* invocations left
  pc,                       \* where each process is in calculate_new_version
  create_no_git_tag, create_snapshot_version,
  all_git_tags, versions, filtered_versions,
  increased_version, new_version_tag_name,
  exit_code,                \* the exit status, once pc is "done"
  stdout,                   \* the lines printed
  create_result,            \* "none", or "created" / "failed" after create_tag
  pushed,                   \* the tag names passed to remote.push
  history                   \* the finished invocations, in order of exit

repo == <<tags, remote_tags>>

options == <<version_prefix, version_suffix, filter_major_version,
             filter_minor_version, pull_before, active>>

flags == <<create_no_git_tag, create_snapshot_version>>

locals == <<all_git_tags, versions, filtered_versions, increased_version,
            new_version_tag_name>>

outcome == <<exit_code, stdout, create_result, pushed>>

vars == <<repo, options, budget, pc, flags, locals, outcome, history>>

InitProcess ==
  /\ pc = [p \in Procs |-> "idle"]
  /\ create_no_git_tag = [p \in Procs |-> FALSE]
  /\ create_snapshot_version = [p \in Procs |-> FALSE]
  /\ all_git_tags = [p \in Procs |-> {}]
  /\ versions = [p \in Procs |-> {}]
  /\ filtered_versions = [p \in Procs |-> {}]
  /\ increased_version = [p \in Procs |-> NoVersion]
  /\ new_version_tag_name = [p \in Procs |-> <<>>]
  /\ exit_code = [p \in Procs |-> 0]
  /\ stdout = [p \in Procs |-> <<>>]
  /\ create_result = [p \in Procs |-> "none"]
  /\ pushed = [p \in Procs |-> {}]
  /\ history = <<>>

\* Two invocations on one repository, by either process, in any interleaving.
Init ==
  /\ \E affix \in SmallAffixPool :
       version_prefix = affix[1] /\ version_suffix = affix[2]
  /\ filter_major_version \in SmallFilterMajorPool
  /\ filter_minor_version \in SmallFilterMinorPool
  /\ pull_before \in BOOLEAN
  /\ tags \in {t \in SUBSET SmallTagPool(version_prefix, version_suffix) :
                 Cardinality(t) <= MaxInitTags}
  /\ remote_tags \in [Remotes -> SUBSET SmallRemoteTagPool(version_prefix, version_suffix)]
  /\ active = Procs
  /\ budget = Cardinality(Procs)
  /\ InitProcess

\* One process, invoking the program again and again.
InitSeq ==
  /\ \E affix \in SmallAffixPool :
       version_prefix = affix[1] /\ version_suffix = affix[2]
  /\ filter_major_version \in SmallFilterMajorPool
  /\ filter_minor_version \in SmallFilterMinorPool
  /\ pull_before \in BOOLEAN
  /\ tags \in {t \in SUBSET SmallTagPool(version_prefix, version_suffix) :
                 Cardinality(t) <= MaxInitTags}
  /\ remote_tags \in [Remotes -> SUBSET SmallRemoteTagPool(version_prefix, version_suffix)]
  /\ active = {"a"}
  /\ budget = MaxRuns
  /\ InitProcess

\* One invocation, over the wide pools of tags and options.
InitFn ==
  /\ version_prefix \in PrefixPool
  /\ version_suffix \in SuffixPool
  /\ filter_major_version \in FilterMajorPool
  /\ filter_minor_version \in FilterMinorPool
  /\ pull_before = TRUE
  /\ tags \in {t \in SUBSET TagPool(version_prefix, version_suffix) :
                 Cardinality(t) <= MaxInitTags}
  /\ remote_tags = [r \in Remotes |-> {}]
  /\ active = {"a"}
  /\ budget = 1
  /\ InitProcess

(***************************************************************************)
(* calculate_new_version, step by step                                     *)
(***************************************************************************)
\* The command line: the process starts with its flags; the other options
\* are those of the configuration.
Start(p) ==
  /\ p \in active
  /\ pc[p] \in {"idle", "done"}
  /\ budget > 0
  /\ budget' = budget - 1
  /\ \E dry \in BOOLEAN, snapshot \in BOOLEAN :
       /\ create_no_git_tag' = [create_no_git_tag EXCEPT ![p] = dry]
       /\ create_snapshot_version' = [create_snapshot_version EXCEPT ![p] = snapshot]
  /\ pc' = [pc EXCEPT ![p] = IF pull_before THEN "pull" ELSE "read"]
  /\ all_git_tags' = [all_git_tags EXCEPT ![p] = {}]
  /\ versions' = [versions EXCEPT ![p] = {}]
  /\ filtered_versions' = [filtered_versions EXCEPT ![p] = {}]
  /\ increased_version' = [increased_version EXCEPT ![p] = NoVersion]
  /\ new_version_tag_name' = [new_version_tag_name EXCEPT ![p] = <<>>]
  /\ exit_code' = [exit_code EXCEPT ![p] = 0]
  /\ stdout' = [stdout EXCEPT ![p] = <<>>]
  /\ create_result' = [create_result EXCEPT ![p] = "none"]
  /\ pushed' = [pushed EXCEPT ![p] = {}]
  /\ UNCHANGED <<repo, options, history>>

\* fetch_and_pull_remotes: the tags of every remote arrive in the repository.
Pull(p) ==
  /\ pc[p] = "pull"
  /\ tags' = tags \cup UNION {remote_tags[r] : r \in Remotes}
  /\ pc' = [pc EXCEPT ![p] = "read"]
  /\ UNCHANGED <<remote_tags, options, budget, flags, locals, outcome, history>>

\* Lines 81-105: the tags are read, the next version is computed and its
\* tag name rendered.
Read(p) ==
  /\ pc[p] = "read"
  /\ LET vs       == PreviousVersions(tags, version_prefix, version_suffix)
         filtered == filter_versions(vs, filter_major_version, filter_minor_version)
         increased == IncreasedVersion(vs, filtered, filter_major_version,
                                       filter_minor_version)
     IN /\ all_git_tags' = [all_git_tags EXCEPT ![p] = tags]
        /\ versions' = [versions EXCEPT ![p] = vs]
        /\ filtered_versions' = [filtered_versions EXCEPT ![p] = filtered]
        /\ increased_version' = [increased_version EXCEPT ![p] = increased]
        /\ new_version_tag_name' = [new_version_tag_name EXCEPT ![p] =
             generate_version_name(increased, version_prefix, version_suffix,
                                   create_snapshot_version[p], SNAPSHOT)]
  /\ pc' = [pc EXCEPT ![p] = "check"]
  /\ UNCHANGED <<repo, options, budget, flags, outcome, history>>

\* The record of a finished invocation.
Finished(p, code, result) ==
  [proc |-> p, snapshot |-> create_snapshot_version[p],
   dry |-> create_no_git_tag[p], name |-> new_version_tag_name[p],
   version |-> increased_version[p], seen |-> all_git_tags[p],
   versions |-> versions[p],
   exit_code |-> code, create_result |-> result]

\* A dry-run flag that is not looked at.
WantsTagAlways(no_git_tag) == TRUE

\* Line 107: whether the invocation goes on to the collision check.
WantsTag(no_git_tag) == ~no_git_tag

\* Lines 107-110 and 115: without a tag to create the name is printed; a name
\* among the tags read ends the process with status 1.
Check(p) ==
  /\ pc[p] = "check"
  /\ IF ~WantsTag(create_no_git_tag[p])
     THEN /\ stdout' = [stdout EXCEPT ![p] = Append(@, new_version_tag_name[p])]
          /\ exit_code' = [exit_code EXCEPT ![p] = 0]
          /\ pc' = [pc EXCEPT ![p] = "done"]
          /\ history' = Append(history, Finished(p, 0, "none"))
     ELSE IF TagNameTaken(new_version_tag_name[p], all_git_tags[p])
     THEN /\ exit_code' = [exit_code EXCEPT ![p] = 1]
          /\ pc' = [pc EXCEPT ![p] = "done"]
          /\ history' = Append(history, Finished(p, 1, "none"))
          /\ UNCHANGED stdout
     ELSE /\ pc' = [pc EXCEPT ![p] = "create"]
          /\ UNCHANGED <<exit_code, stdout, history>>
  /\ UNCHANGED <<repo, options, budget, flags, locals, create_result, pushed>>

\* Line 112: repo.create_tag.  git refuses a name that exists: the exception
\* is not caught and ends the process with status 1.
Create(p) ==
  /\ pc[p] = "create"
  /\ IF new_version_tag_name[p] \in tags
     THEN /\ create_result' = [create_result EXCEPT ![p] = "failed"]
          /\ exit_code' = [exit_code EXCEPT ![p] = 1]
          /\ pc' = [pc EXCEPT ![p] = "done"]
          /\ history' = Append(history, Finished(p, 1, "failed"))
          /\ UNCHANGED tags
     ELSE /\ create_result' = [create_result EXCEPT ![p] = "created"]
          /\ tags' = tags \cup {new_version_tag_name[p]}
          /\ pc' = [pc EXCEPT ![p] = "push"]
          /\ UNCHANGED <<exit_code, history>>
  /\ UNCHANGED <<remote_tags, options, budget, flags, locals, stdout, pushed>>

\* Lines 113-115: push_new_tags_to_remotes, then the name is printed.
Push(p) ==
  /\ pc[p] = "push"
  /\ remote_tags' = [r \in Remotes |-> remote_tags[r] \cup {new_version_tag_name[p]}]
  /\ pushed' = [pushed EXCEPT ![p] = @ \cup {new_version_tag_name[p]}]
  /\ stdout' = [stdout EXCEPT ![p] = Append(@, new_version_tag_name[p])]
  /\ exit_code' = [exit_code EXCEPT ![p] = 0]
  /\ pc' = [pc EXCEPT ![p] = "done"]
  /\ history' = Append(history, Finished(p, 0, "created"))
  /\ UNCHANGED <<tags, options, budget, flags, locals, create_result>>

Next ==
  \E p \in Procs :
    \/ Start(p)
    \/ Pull(p)
    \/ Read(p)
    \/ Check(p)
    \/ Create(p)
    \/ Push(p)

Spec == Init /\ [][Next]_vars

SpecSeq == InitSeq /\ [][Next]_vars

SpecFn == InitFn /\ [][Next]_vars

(***************************************************************************)
(* Properties                                                              *)
(***************************************************************************)
\* The process has computed its next version and rendered the tag name.
Computed(p) == pc[p] \in {"check", "create", "push", "done"}

\* The process is past the collision check of line 108.
Checked(p) == pc[p] \in {"create", "push", "done"}

\* v is at most w in the (major, minor, patch) lexicographic order.
TripleLeq(v, w) ==
  \/ v.major < w.major
  \/ v.major = w.major /\ v.minor < w.minor
  \/ v.major = w.major /\ v.minor = w.minor /\ v.patch <= w.patch

\* s occurs in t.
Contains(t, s) ==
  \E i \in 1..(Len(t) - Len(s) + 1) : SubSeq(t, i, i + Len(s) - 1) = s

\* C1: when no tag read from the repository parses as a version under the
\* configured prefix and suffix, the next version is 1.0.0, whatever the
\* filters are.
C1_NoVersionsGivesInitial ==
  \A p \in Procs :
    (Computed(p) /\ versions[p] = {}) => increased_version[p] = Version(1, 0, 0)

\* C1 witness: tags were read, none parsed, both filters are set, and the
\* next version is 1.0.0.
C1_Witness ==
  \E p \in Procs :
    /\ Computed(p)
    /\ all_git_tags[p] # {}
    /\ versions[p] = {}
    /\ ~IsNone(filter_major_version)
    /\ ~IsNone(filter_minor_version)
    /\ increased_version[p] = Version(1, 0, 0)

\* The version filter-major.(filter-minor or 0).0 of the claims.
FilterLineStart ==
  Version(IntOf(filter_major_version),
          IF IsNone(filter_minor_version) THEN 0 ELSE IntOf(filter_minor_version),
          0)

\* C2 as claimed: whenever the filtered set is empty and filter-major is
\* set, the next version is filter-major.(filter-minor or 0).0.
C2_Original ==
  \A p \in Procs :
    (Computed(p) /\ ~IsNone(filter_major_version) /\ filtered_versions[p] = {})
      => increased_version[p] = FilterLineStart

\* C2 as amended: when some tag parses as a version, the filtered set is
\* empty and filter-major is set, the next version is
\* filter-major.(filter-minor or 0).0.
C2_EmptyFilterStartsLine ==
  \A p \in Procs :
    (/\ Computed(p)
     /\ ~IsNone(filter_major_version)
     /\ versions[p] # {}
     /\ filtered_versions[p] = {})
      => increased_version[p] = FilterLineStart

\* C2 witness: versions were found, none passes the filter 2.3, and the next
\* version is 2.3.0.
C2_Witness ==
  \E p \in Procs :
    /\ Computed(p)
    /\ filter_major_version = <<2>>
    /\ filter_minor_version = <<3>>
    /\ versions[p] # {}
    /\ filtered_versions[p] = {}
    /\ increased_version[p] = Version(2, 3, 0)

\* The filtered set as the claims describe it: every parsed version when
\* filter-major is unset, else those of that major and, when filter-minor
\* is set, of that minor.
ClaimedFilteredSet(p) ==
  IF IsNone(filter_major_version) THEN versions[p]
  ELSE {v \in versions[p] :
          /\ v.major = IntOf(filter_major_version)
          /\ IsNone(filter_minor_version) \/ v.minor = IntOf(filter_minor_version)}

\* C3: when the filtered set is not empty, the next version has the major and
\* minor of the filtered set's maximum in the (major, minor, patch) order, and
\* that maximum's patch plus 1.
C3_BumpsPatchOfMax ==
  \A p \in Procs :
    (Computed(p) /\ ClaimedFilteredSet(p) # {})
      => \E m \in ClaimedFilteredSet(p) :
           /\ \A w \in ClaimedFilteredSet(p) : TripleLeq(w, m)
           /\ increased_version[p].major = m.major
           /\ increased_version[p].minor = m.minor
           /\ increased_version[p].patch = m.patch + 1
           /\ increased_version[p].prerelease = <<>>

\* C3 witness: filter-minor is set without filter-major, two versions of
\* different major were found, and the patch went from 9 to 10.
C3_Witness ==
  \E p \in Procs :
    /\ Computed(p)
    /\ IsNone(filter_major_version)
    /\ filter_minor_version = <<3>>
    /\ \E v, w \in versions[p] : v.major # w.major
    /\ increased_version[p] = Version(1, 0, 10)

\* C4 as claimed: in every invocation, a rendered name among the tags read
\* ends the invocation with status 1, no tag created and nothing pushed.
C4_Original ==
  \A p \in Procs :
    (Checked(p) /\ new_version_tag_name[p] \in all_git_tags[p])
      => /\ pc[p] = "done"
         /\ exit_code[p] = 1
         /\ create_result[p] = "none"
         /\ pushed[p] = {}

\* C4 as amended: in every invocation with dry-run off, a rendered name among
\* the tags read ends the invocation with status 1, with create_tag never
\* called and nothing pushed.
C4_CollisionFails ==
  \A p \in Procs :
    (/\ Checked(p)
     /\ ~create_no_git_tag[p]
     /\ new_version_tag_name[p] \in all_git_tags[p])
      => /\ pc[p] = "done"
         /\ exit_code[p] = 1
         /\ create_result[p] = "none"
         /\ pushed[p] = {}
         /\ stdout[p] = <<>>

\* C4 witness: an invocation with dry-run off has ended on a collision.
C4_Witness ==
  \E p \in Procs :
    /\ pc[p] = "done"
    /\ ~create_no_git_tag[p]
    /\ new_version_tag_name[p] \in all_git_tags[p]
    /\ exit_code[p] = 1

\* C5: a dry-run invocation ends with status 0 and the tag name printed, has
\* called neither create_tag nor push, and leaves the repository with the
\* tags it read.
C5_DryRunChangesNothing ==
  \A p \in Procs :
    (pc[p] = "done" /\ create_no_git_tag[p])
      => /\ exit_code[p] = 0
         /\ stdout[p] = <<new_version_tag_name[p]>>
         /\ create_result[p] = "none"
         /\ pushed[p] = {}
         /\ tags = all_git_tags[p]

\* C5 witness: a dry-run invocation has ended although its name is among the
\* tags it read.
C5_Witness ==
  \E p \in Procs :
    /\ pc[p] = "done"
    /\ create_no_git_tag[p]
    /\ new_version_tag_name[p] \in all_git_tags[p]
    /\ exit_code[p] = 0

\* C6: with snapshot-mode off, the rendered name, parsed the way
\* find_previous_versions parses a tag, is the version it was rendered from.
C6_RoundTrip ==
  \A p \in Procs :
    (Computed(p) /\ ~create_snapshot_version[p])
      => /\ StartsWith(new_version_tag_name[p], version_prefix)
         /\ EndsWith(new_version_tag_name[p], version_suffix)
         /\ Parse(ExtractVersionString(new_version_tag_name[p], version_prefix,
                                       version_suffix)) = increased_version[p]

\* C7: in snapshot-mode the rendered name is prefix, major, ".", minor,
\* "-SNAPSHOT", suffix: it holds the marker and not the patch.
C7_SnapshotName ==
  \A p \in Procs :
    (Computed(p) /\ create_snapshot_version[p])
      => /\ new_version_tag_name[p] =
              version_prefix \o IntToStr(increased_version[p].major) \o <<".">>
                \o IntToStr(increased_version[p].minor)
                \o <<"-", "S", "N", "A", "P", "S", "H", "O", "T">> \o version_suffix
         /\ Contains(new_version_tag_name[p], <<"S", "N", "A", "P", "S", "H", "O", "T">>)

\* C7 witness: a snapshot name was rendered for a version of patch 10.
C7_Witness ==
  \E p \in Procs :
    /\ Computed(p)
    /\ create_snapshot_version[p]
    /\ increased_version[p].patch = 10
    /\ version_suffix # <<>>

\* C8: no invocation calls create_tag for a name that is in the repository
\* at that moment.
C8_NoCreateOfExistingName ==
  \A p \in Procs : create_result[p] # "failed"

\* A finished invocation ran with snapshot-mode and dry-run off, and its
\* rendered name parses back to its version.
Normal(h) ==
  /\ ~h.snapshot
  /\ ~h.dry
  /\ Parse(ExtractVersionString(h.name, version_prefix, version_suffix)) = h.version

AllNormal == \A i \in 1..Len(history) : Normal(history[i])

\* Invocation i passed the collision check and added exactly its tag.
AddsOneTag(i) ==
  /\ history[i].exit_code = 0
  /\ history[i].create_result = "created"
  /\ history[i].name \notin history[i].seen
  /\ i < Len(history)
       => history[i + 1].seen = history[i].seen \cup {history[i].name}
  /\ (i = Len(history) /\ \A p \in Procs : pc[p] \in {"idle", "done"})
       => tags = history[i].seen \cup {history[i].name}

\* Invocation i created the version after that of invocation i - 1.
Chain(i) ==
  /\ history[i].version.major = history[i - 1].version.major
  /\ history[i].version.minor = history[i - 1].version.minor
  /\ history[i].version.patch = history[i - 1].version.patch + 1

\* C9 as claimed: in a sequence of normal invocations each one passes the
\* collision check and adds one tag, and from the second on each version is
\* the one before with the patch raised by 1.
C9_Original ==
  AllNormal =>
    \A i \in 1..Len(history) : AddsOneTag(i) /\ (i >= 2 => Chain(i))

\* The first invocation found no version and its 1.0.0 is outside the filter.
FirstOutsideFilter ==
  /\ history[1].versions = {}
  /\ ~IsNone(filter_major_version)
  /\ ~(/\ IntOf(filter_major_version) = 1
       /\ IsNone(filter_minor_version) \/ IntOf(filter_minor_version) = 0)

\* C9 as amended: as claimed, except that after a first invocation that found
\* no version and created a 1.0.0 outside the filter, the second creates
\* filter-major.(filter-minor or 0).0.
C9_SequentialBumps ==
  AllNormal =>
    \A i \in 1..Len(history) :
      /\ AddsOneTag(i)
      /\ i >= 2 =>
           IF i = 2 /\ FirstOutsideFilter
           THEN history[i].version = FilterLineStart
           ELSE Chain(i)

\* C9 witness: three normal invocations, the first of which found no version
\* while filter-major was 2.
C9_Witness ==
  /\ Len(history) >= 3
  /\ AllNormal
  /\ history[1].versions = {}
  /\ filter_major_version = <<2>>

\* Invocation j is the next snapshot-mode invocation after i, and no tag was
\* created between them.
NextSnapshot(i, j) ==
  /\ i < j
  /\ history[i].snapshot
  /\ ~history[i].dry
  /\ history[i].create_result = "created"
  /\ history[j].snapshot
  /\ \A k \in (i + 1)..(j - 1) :
       ~history[k].snapshot /\ history[k].create_result # "created"

\* Invocation j parsed the versions of i, rendered its name and ended on the
\* collision check.
RepeatsAndFails(i, j) ==
  /\ history[j].versions = history[i].versions
  /\ history[j].name = history[i].name
  /\ history[j].exit_code = 1
  /\ history[j].create_result = "none"

\* C10: after a snapshot-mode invocation has created its tag, the next
\* snapshot-mode invocation (dry-run off, no tag created in between) parses
\* the same versions, renders the same name and ends with status 1 on the
\* collision check, creating no tag.
C10_SnapshotRepeatFails ==
  \A i, j \in 1..Len(history) :
    (NextSnapshot(i, j) /\ ~history[j].dry) => RepeatsAndFails(i, j)

====
